---- MODULE Spec2Model ----
(***************************************************************************)
(* Model of redshift_create_db.py: an Ansible module that ensures a        *)
(* Redshift database is present or absent.  One invocation of main() runs  *)
(* at a time against a remote catalog (pg_database) that outlives the      *)
(* invocations.  Database names and statement texts are sequences of       *)
(* one-character strings so that identifier quoting is a real conversion.  *)
(***************************************************************************)
EXTENDS Integers, Sequences, FiniteSets, TLC

\* ------------------------------------------------------------------------
\* Bounds
\* ------------------------------------------------------------------------
\* number of invocations of main() in one behaviour
MaxCalls == 2
\* largest number of pg_database rows a faulty catalog reports for one name
MaxRows == 2

\* ------------------------------------------------------------------------
\* Characters, names and texts
\* ------------------------------------------------------------------------
Quote == "\""
Dot == "."
Letters == {"a", "b", "s"}

\* Names the caller may pass as module.params["db"]: a plain name, a name
\* holding a double quote (needs escaping), and a dotted name, which
\* pg_quote_identifier refuses for a database.  All are given undelimited:
\* a name already wrapped in double quotes passes through
\* pg_quote_identifier as it is, so the CREATE names another database than
\* the existence query looks for; such names are left out of this set.
DbNames == { <<"a">>, <<"a", Quote>>, <<"a", Dot, "b">> }

States == {"present", "absent"}

\* str.index: position (1-based) of the first c in s, 0 when there is none
RECURSIVE IndexFrom(_, _, _)
IndexFrom(s, c, i) ==
    IF i > Len(s) THEN 0
    ELSE IF s[i] = c THEN i
    ELSE IndexFrom(s, c, i + 1)

IndexOf(s, c) == IndexFrom(s, c, 1)

\* identifier.replace(quote_char, quote_char * 2)
RECURSIVE DoubleQuotes(_)
DoubleQuotes(s) ==
    IF s = <<>> THEN <<>>
    ELSE (IF Head(s) = Quote THEN <<Quote, Quote>> ELSE <<Head(s)>>)
         \o DoubleQuotes(Tail(s))

\* ''.join((quote_char, identifier, quote_char)) after doubling the quotes
Delimit(s) == <<Quote>> \o DoubleQuotes(s) \o <<Quote>>

\* _find_end_quote: 0-based offset of the closing quote in s, -1 for
\* UnclosedQuoteError
RECURSIVE FindEndQuote(_)
FindEndQuote(s) ==
    LET q == IndexOf(s, Quote)
    IN  IF q = 0 THEN -1
        ELSE IF q = Len(s) THEN q - 1
        ELSE IF s[q + 1] = Quote
             THEN LET r == FindEndQuote(SubSeq(s, q + 2, Len(s)))
                  IN  IF r = -1 THEN -1 ELSE (q - 1) + 2 + r
        ELSE q - 1

\* _identifier_parse: the delimited fragments of an identifier, or
\* ok = FALSE for SQLParseError
RECURSIVE identifier_parse(_)
identifier_parse(s) ==
    LET Unquoted ==
            LET dot == IndexOf(s, Dot)
            IN  IF dot = 0 \/ dot = 1 \/ dot >= Len(s)
                THEN [ok |-> TRUE, parts |-> <<Delimit(s)>>]
                ELSE LET rest == identifier_parse(SubSeq(s, dot + 1, Len(s)))
                     IN  IF rest.ok
                         THEN [ok |-> TRUE,
                               parts |-> <<Delimit(SubSeq(s, 1, dot - 1))>> \o rest.parts]
                         ELSE rest
        e == FindEndQuote(Tail(s))
        endq == e + 2
    IN  IF s = <<>> THEN [ok |-> FALSE, parts |-> <<>>]
        ELSE IF Head(s) = Quote /\ e # -1
        THEN IF endq < Len(s)
             THEN IF s[endq + 1] = Dot
                  THEN LET rest == identifier_parse(SubSeq(s, endq + 2, Len(s)))
                       IN  IF rest.ok
                           THEN [ok |-> TRUE,
                                 parts |-> <<SubSeq(s, 1, endq)>> \o rest.parts]
                           ELSE rest
                  ELSE [ok |-> FALSE, parts |-> <<>>]
             ELSE [ok |-> TRUE, parts |-> <<s>>]
        ELSE Unquoted

\* _PG_IDENTIFIER_TO_DOT_LEVEL['database']
DatabaseDotLevel == 1

\* '.'.join(fragments)
RECURSIVE JoinDots(_)
JoinDots(parts) ==
    IF parts = <<>> THEN <<>>
    ELSE IF Len(parts) = 1 THEN parts[1]
    ELSE parts[1] \o <<Dot>> \o JoinDots(Tail(parts))

\* pg_quote_identifier(db, 'database'): the delimited identifier, or
\* ok = FALSE for SQLParseError
pg_quote_identifier(db) ==
    LET frags == identifier_parse(db)
    IN  IF ~frags.ok \/ Len(frags.parts) > DatabaseDotLevel
        THEN [ok |-> FALSE, text |-> <<>>]
        ELSE [ok |-> TRUE, text |-> JoinDots(frags.parts)]

\* ------------------------------------------------------------------------
\* The remote backend behind cursor.execute
\* ------------------------------------------------------------------------
\* Statements are [verb, arg]: arg is the bound parameter of the SELECT and
\* the text standing where the database identifier belongs in DDL.
SelectQuery(db) == [verb |-> "SELECT", arg |-> db]

\* the name put into the CREATE as it was given
CreateQueryUnquoted(db) == [verb |-> "CREATE DATABASE", arg |-> db]

\* "CREATE DATABASE %s" % pg_quote_identifier(db, 'database')
CreateQuery(db) == [verb |-> "CREATE DATABASE", arg |-> pg_quote_identifier(db).text]

\* "DROP DATABASE %s", executed as written: nothing is substituted for %s
DropQuery(db) == [verb |-> "DROP DATABASE", arg |-> <<"%", "s">>]

\* the name inside a delimited identifier: "" stands for one quote
RECURSIVE Undouble(_)
Undouble(s) ==
    IF s = <<>> THEN [ok |-> TRUE, name |-> <<>>]
    ELSE IF Head(s) = Quote
         THEN IF Len(s) >= 2 /\ s[2] = Quote
              THEN LET r == Undouble(SubSeq(s, 3, Len(s)))
                   IN  [ok |-> r.ok, name |-> <<Quote>> \o r.name]
              ELSE [ok |-> FALSE, name |-> <<>>]
         ELSE LET r == Undouble(Tail(s))
              IN  [ok |-> r.ok, name |-> <<Head(s)>> \o r.name]

\* How the server reads the identifier of a DDL statement: a delimited
\* identifier, a bare word of letters, or a syntax error.
BackendIdent(text) ==
    IF Len(text) >= 3 /\ text[1] = Quote /\ text[Len(text)] = Quote
    THEN Undouble(SubSeq(text, 2, Len(text) - 1))
    ELSE IF text # <<>> /\ \A i \in 1..Len(text) : text[i] \in Letters
    THEN [ok |-> TRUE, name |-> text]
    ELSE [ok |-> FALSE, name |-> <<>>]

\* cursor.execute(stmt) on a working session: whether the server accepts
\* the statement, the message of the error it raises otherwise, the
\* resulting cursor.rowcount and the catalog afterwards.
BackendExecute(stmt, cat) ==
    LET id == BackendIdent(stmt.arg)
        Rejected(e) == [ok |-> FALSE, err |-> e, rowcount |-> -1, catalog |-> cat]
    IN  IF stmt.verb = "SELECT"
        THEN [ok |-> TRUE, err |-> "none",
              rowcount |-> IF stmt.arg \in DOMAIN cat THEN cat[stmt.arg] ELSE 0,
              catalog |-> cat]
        ELSE IF ~id.ok THEN Rejected("syntax error")
        ELSE IF id.name \notin DOMAIN cat THEN Rejected("permission denied")
        ELSE IF stmt.verb = "CREATE DATABASE"
        THEN IF cat[id.name] >= 1 THEN Rejected("database already exists")
             ELSE [ok |-> TRUE, err |-> "none", rowcount |-> -1,
                   catalog |-> [cat EXCEPT ![id.name] = 1]]
        ELSE IF cat[id.name] = 0 THEN Rejected("database does not exist")
             ELSE [ok |-> TRUE, err |-> "none", rowcount |-> -1,
                   catalog |-> [cat EXCEPT ![id.name] = 0]]

\* ------------------------------------------------------------------------
\* State
\* ------------------------------------------------------------------------
VARIABLES
    catalog,        \* pg_database: number of rows per datname
    pc,             \* position of the invocation in main()
    params,         \* module.params: db, state, and module.check_mode
    env,            \* what the driver and the session do in this invocation
    db_connection,  \* TRUE while the psycopg2 connection is open
    cursor,         \* TRUE while the cursor is open
    rowcount,       \* cursor.rowcount after the last execute
    changed,        \* main's local variable changed
    outcome,        \* what exit_json / fail_json handed to the caller
    emitted,        \* every result exit_json / fail_json printed, in order
    issued,         \* statements passed to cursor.execute, in order
    called,         \* db_* functions entered in this invocation
    seen,           \* rowcount the existence query of this invocation returned
    actSaw,         \* rows of the database when its CREATE / DROP was executed
    catalogBefore,  \* catalog when the invocation started
    prev,           \* the invocation before this one, as its caller saw it
    ncalls          \* invocations started so far

vars == <<catalog, pc, params, env, db_connection, cursor, rowcount, changed,
          outcome, emitted, issued, called, seen, actSaw, catalogBefore, prev,
          ncalls>>

ConnFaults == {"none", "no_psycopg2", "LibraryError", "TypeError_sslrootcert",
               "TypeError", "ConnectError", "CursorError"}

\* execFault = k: the k-th cursor.execute of the invocation raises a driver
\* error (lost connection, permission denied); 0: the session is healthy
ExecFaults == 0..2

NoOutcome == [kind |-> "none", changed |-> FALSE, db |-> <<>>, msg |-> "none"]

\* the maintenance database returned in place of the requested one
exit_json_maintenance(c, d) ==
    [kind |-> "exit_json", changed |-> c, db |-> <<"p">>, msg |-> "none"]

\* module.exit_json(changed=changed, db=db)
exit_json(c, d) == [kind |-> "exit_json", changed |-> c, db |-> d, msg |-> "none"]

\* module.fail_json(msg=...)
fail_json(m) == [kind |-> "fail_json", changed |-> FALSE, db |-> <<>>, msg |-> m]

NoParams == [db |-> <<>>, state |-> "present", check_mode |-> FALSE]
NoEnv == [connFault |-> "none", execFault |-> 0]
NoPrev == [valid |-> FALSE, params |-> NoParams, faulted |-> FALSE,
           outcome |-> NoOutcome, seen |-> -1, actSaw |-> -1]

InitCommon ==
    /\ pc = "idle"
    /\ params = NoParams
    /\ env = NoEnv
    /\ db_connection = FALSE
    /\ cursor = FALSE
    /\ rowcount = -1
    /\ changed = FALSE
    /\ outcome = NoOutcome
    /\ emitted = <<>>
    /\ issued = <<>>
    /\ called = {}
    /\ seen = -1
    /\ actSaw = -1
    /\ catalogBefore = catalog
    /\ prev = NoPrev
    /\ ncalls = 0

\* a real pg_database: datname is unique
Init ==
    /\ catalog \in [DbNames -> 0..1]
    /\ InitCommon

\* a session double that may report several rows for one name
InitDup ==
    /\ catalog \in [DbNames -> 0..MaxRows]
    /\ InitCommon

\* ------------------------------------------------------------------------
\* Helpers of the reconciler
\* ------------------------------------------------------------------------
\* any row count taken for existence
db_exists_nonneg(rc) == rc >= 0

\* any row at all taken for existence
db_exists_nonzero(rc) == rc # 0

\* several rows taken for existence
db_exists_atleastone(rc) == rc >= 1

\* db_exists: return cursor.rowcount == 1
db_exists(rc) == rc = 1

\* db_matches: False when db_exists is False, True otherwise
db_matches(rc) == IF ~db_exists(rc) THEN FALSE ELSE TRUE

\* the check-mode test left out
NeverShortCircuits(check_mode) == FALSE

\* if module.check_mode:
ShortCircuits(check_mode) == check_mode

\* the check-mode branch: changed = db_exists(...) for absent,
\* changed = not db_matches(...) for present
CheckModeChanged(state, rc) ==
    IF state = "absent" THEN db_exists(rc) ELSE ~db_matches(rc)

\* cursor.execute in this invocation: the k-th execute raises when the
\* environment says so (the server then applies nothing), otherwise the
\* backend decides.
Execute(stmt) ==
    LET faulty == env.execFault = Len(issued) + 1
        r == BackendExecute(stmt, catalog)
    IN  IF faulty THEN [ok |-> FALSE, err |-> "driver error", rowcount |-> -1,
                        catalog |-> catalog]
        ELSE r

\* a row count remembered from the invocation before
RowcountCached(r) ==
    IF prev.valid /\ prev.params.db = params.db /\ prev.seen >= 0
    THEN prev.seen ELSE r.rowcount

\* db_exists reads cursor.rowcount of the execute it has just made
Rowcount(r) == r.rowcount

\* "Database query failed: %s" % to_native(e)
QueryFailed(e) == "Database query failed: " \o e

\* the exception taken for a success
SwallowException(e) == exit_json(changed, params.db)

\* the exception taken for a change made
ReportsChanged(e) == exit_json(TRUE, params.db)

\* except Exception as e: module.fail_json(msg="Database query failed: ...")
OnException(e) == fail_json(QueryFailed(e))

\* no handler of its own: the parse error reaches except Exception
NoSQLParseHandler(e) == OnException(e)

\* except SQLParseError as e: module.fail_json(msg=to_native(e))
OnSQLParseError(e) == fail_json(e)

\* SystemExit handled as any other exception
ExceptClausePy24(exc) ==
    CASE exc = "NotSupportedError" -> "fail_json"
      [] OTHER -> "query_failed"

\* the except clause of the second try block that takes an exception
ExceptClause(exc) ==
    CASE exc = "NotSupportedError" -> "fail_json"
      [] exc = "SystemExit" -> "raise"
      [] OTHER -> "query_failed"

\* exit_json / fail_json called inside the second try block: the
\* SystemExit it raises passes the except clauses before the process ends
InTry(o) ==
    IF ExceptClause("SystemExit") = "raise" THEN <<o>>
    ELSE <<o, OnException("SystemExit")>>

\* the results printed by this step; the caller takes the last one
Emit(outs) ==
    /\ emitted' = emitted \o outs
    /\ outcome' = outs[Len(outs)]

\* the driver failed in this invocation: at connection setup, or at one of
\* the statements handed to cursor.execute
Faulted == env.connFault # "none" \/ env.execFault \in 1..Len(issued)

\* ------------------------------------------------------------------------
\* Actions
\* ------------------------------------------------------------------------
\* A new process runs the module: AnsibleModule(...) reads the arguments.
Invoke ==
    /\ pc = "idle"
    /\ ncalls < MaxCalls
    /\ \E d \in DbNames, st \in States, cm \in BOOLEAN,
          cf \in ConnFaults, ef \in ExecFaults :
          /\ cf # "none" => ef = 0
          /\ cm => ef <= 1
          /\ params' = [db |-> d, state |-> st, check_mode |-> cm]
          /\ env' = [connFault |-> cf, execFault |-> ef]
    /\ pc' = "start"
    /\ catalogBefore' = catalog
    /\ ncalls' = ncalls + 1
    /\ UNCHANGED <<catalog, db_connection, cursor, rowcount, changed, outcome,
                   emitted, issued, called, seen, actSaw, prev>>

\* exit_json and fail_json end the process: what it held is gone, the
\* caller keeps the result, the catalog remains.
Exit ==
    /\ pc = "done"
    /\ prev' = [valid |-> TRUE, params |-> params, faulted |-> Faulted,
                outcome |-> outcome, seen |-> seen, actSaw |-> actSaw]
    /\ pc' = "idle"
    /\ params' = NoParams
    /\ env' = NoEnv
    /\ db_connection' = FALSE
    /\ cursor' = FALSE
    /\ rowcount' = -1
    /\ changed' = FALSE
    /\ outcome' = NoOutcome
    /\ emitted' = <<>>
    /\ issued' = <<>>
    /\ called' = {}
    /\ seen' = -1
    /\ actSaw' = -1
    /\ catalogBefore' = catalog
    /\ UNCHANGED <<catalog, ncalls>>

\* main, up to the end of the first try block, when everything succeeds:
\* the connection is opened, autocommit set and a cursor created.
ConnectOk ==
    /\ pc = "start"
    /\ env.connFault = "none"
    /\ changed' = FALSE
    /\ db_connection' = TRUE
    /\ cursor' = TRUE
    /\ pc' = "reconcile"
    /\ UNCHANGED <<catalog, params, env, rowcount, outcome, emitted, issued,
                   called, seen, actSaw, catalogBefore, prev, ncalls>>

\* fail_json reports the failure but main goes on to the second try block
ConnectFailContinues ==
    /\ pc = "start"
    /\ env.connFault # "none"
    /\ changed' = FALSE
    /\ db_connection' = (env.connFault = "CursorError")
    /\ cursor' = FALSE
    /\ Emit(<<fail_json("unable to connect to database")>>)
    /\ pc' = "reconcile"
    /\ UNCHANGED <<catalog, params, env, rowcount, issued, called, seen, actSaw,
                   catalogBefore, prev, ncalls>>

\* main, up to the end of the first try block, when psycopg2 is missing or
\* an exception is raised: each handler calls fail_json, which exits.
ConnectFail ==
    /\ pc = "start"
    /\ env.connFault # "none"
    /\ changed' = FALSE
    /\ db_connection' = (env.connFault = "CursorError")
    /\ cursor' = FALSE
    /\ Emit(<<fail_json(
            CASE env.connFault = "no_psycopg2" -> "the python psycopg2 module is required"
              [] env.connFault = "TypeError_sslrootcert" ->
                     "Postgresql server must be at least version 8.4 to support sslrootcert"
              [] OTHER -> "unable to connect to database")>>)
    /\ pc' = "done"
    /\ UNCHANGED <<catalog, params, env, rowcount, issued, called, seen, actSaw,
                   catalogBefore, prev, ncalls>>

\* the check-mode branch of main: one existence query, then exit_json
CheckMode ==
    /\ pc = "reconcile"
    /\ ShortCircuits(params.check_mode)
    /\ LET stmt == SelectQuery(params.db)
           r == Execute(stmt)
       IN  /\ issued' = Append(issued, stmt)
           /\ called' = called \cup (IF params.state = "absent"
                                     THEN {"db_exists"}
                                     ELSE {"db_matches", "db_exists"})
           /\ catalog' = r.catalog
           /\ rowcount' = r.rowcount
           /\ seen' = IF r.ok THEN Rowcount(r) ELSE -1
           /\ IF r.ok
              THEN /\ changed' = CheckModeChanged(params.state, Rowcount(r))
                   /\ Emit(InTry(exit_json(changed', params.db)))
              ELSE /\ changed' = changed
                   /\ Emit(<<OnException(r.err)>>)
    /\ pc' = "done"
    /\ UNCHANGED <<params, env, db_connection, cursor, actSaw, catalogBefore,
                   prev, ncalls>>

\* the live branch up to the existence check inside db_delete / db_create;
\* when nothing is to be done the function returns False and main reaches
\* the final exit_json
LiveInspect ==
    /\ pc = "reconcile"
    /\ ~ShortCircuits(params.check_mode)
    /\ LET stmt == SelectQuery(params.db)
           r == Execute(stmt)
           act == IF params.state = "absent"
                  THEN db_exists(Rowcount(r))
                  ELSE ~db_exists(Rowcount(r))
       IN  /\ issued' = Append(issued, stmt)
           /\ called' = called \cup {IF params.state = "absent"
                                     THEN "db_delete" ELSE "db_create",
                                     "db_exists"}
           /\ catalog' = r.catalog
           /\ rowcount' = r.rowcount
           /\ seen' = IF r.ok THEN Rowcount(r) ELSE -1
           /\ changed' = changed
           /\ IF ~r.ok
              THEN /\ Emit(<<OnException(r.err)>>)
                   /\ pc' = "done"
              ELSE IF act
              THEN /\ UNCHANGED <<outcome, emitted>>
                   /\ pc' = IF params.state = "absent" THEN "db_delete" ELSE "db_create"
              ELSE /\ Emit(<<exit_json(changed, params.db)>>)
                   /\ pc' = "done"
    /\ UNCHANGED <<params, env, db_connection, cursor, actSaw, catalogBefore,
                   prev, ncalls>>

\* db_create after the check found nothing: quote the name, execute the
\* CREATE, return True; SQLParseError and driver errors end in fail_json
CreateExec ==
    /\ pc = "db_create"
    /\ LET q == pg_quote_identifier(params.db)
           stmt == CreateQuery(params.db)
           r == Execute(stmt)
       IN  IF ~q.ok
           THEN /\ Emit(InTry(OnSQLParseError("SQLParseError")))
                /\ UNCHANGED <<issued, catalog, rowcount, changed, actSaw>>
           ELSE /\ issued' = Append(issued, stmt)
                /\ actSaw' = catalog[params.db]
                /\ catalog' = r.catalog
                /\ rowcount' = r.rowcount
                /\ IF r.ok
                   THEN /\ changed' = TRUE
                        /\ Emit(<<exit_json(changed', params.db)>>)
                   ELSE /\ changed' = changed
                        /\ Emit(<<OnException(r.err)>>)
    /\ pc' = "done"
    /\ UNCHANGED <<params, env, db_connection, cursor, called, seen,
                   catalogBefore, prev, ncalls>>

\* db_delete after the check found the database: execute the DROP, return
\* True; driver errors end in fail_json
DeleteExec ==
    /\ pc = "db_delete"
    /\ LET stmt == DropQuery(params.db)
           r == Execute(stmt)
       IN  /\ issued' = Append(issued, stmt)
           /\ actSaw' = catalog[params.db]
           /\ catalog' = r.catalog
           /\ rowcount' = r.rowcount
           /\ IF r.ok
              THEN /\ changed' = TRUE
                   /\ Emit(<<exit_json(changed', params.db)>>)
              ELSE /\ changed' = changed
                   /\ Emit(<<OnException(r.err)>>)
    /\ pc' = "done"
    /\ UNCHANGED <<params, env, db_connection, cursor, called, seen,
                   catalogBefore, prev, ncalls>>

Next ==
    \/ Invoke
    \/ ConnectOk
    \/ ConnectFail
    \/ CheckMode
    \/ LiveInspect
    \/ CreateExec
    \/ DeleteExec
    \/ Exit

Spec == Init /\ [][Next]_vars

\* the invocation is between its start and its result
Running == pc \in {"start", "reconcile", "db_create", "db_delete"}

\* Another client of the same cluster creates or drops the database the
\* running invocation is about; nothing orders its statements against
\* those of the invocation.
ExternalCreate ==
    /\ Running
    /\ catalog[params.db] = 0
    /\ catalog' = [catalog EXCEPT ![params.db] = 1]
    /\ UNCHANGED <<pc, params, env, db_connection, cursor, rowcount, changed,
                   outcome, emitted, issued, called, seen, actSaw, catalogBefore,
                   prev, ncalls>>

ExternalDrop ==
    /\ Running
    /\ catalog[params.db] >= 1
    /\ catalog' = [catalog EXCEPT ![params.db] = 0]
    /\ UNCHANGED <<pc, params, env, db_connection, cursor, rowcount, changed,
                   outcome, emitted, issued, called, seen, actSaw, catalogBefore,
                   prev, ncalls>>

NextRace ==
    \/ Next
    \/ ExternalCreate
    \/ ExternalDrop

SpecRace == Init /\ [][NextRace]_vars

\* every blocking call of the invocation returns
Fairness ==
    WF_vars(ConnectOk \/ ConnectFail \/ CheckMode \/ LiveInspect
            \/ CreateExec \/ DeleteExec)

SpecFair == Spec /\ Fairness

SpecDup == InitDup /\ [][Next]_vars

\* ------------------------------------------------------------------------
\* Properties
\* ------------------------------------------------------------------------
Done == pc = "done"

\* the driver connects and every execute reaches the backend
Healthy == env.connFault = "none" /\ env.execFault = 0

PrevHealthy == ~prev.faulted

\* the name passes pg_quote_identifier
Quotable == pg_quote_identifier(params.db).ok

Live == ~params.check_mode

\* desired state against the state observed when the call started
Differs ==
    \/ params.state = "present" /\ catalogBefore[params.db] = 0
    \/ params.state = "absent" /\ catalogBefore[params.db] = 1

IsDDL(stmt) == stmt.verb \in {"CREATE DATABASE", "DROP DATABASE"}

NoDDLIssued == \A i \in 1..Len(issued) : ~IsDDL(issued[i])

\* C1: every completed call on a healthy session with a quotable name ends
\* in exit_json, and its changed flag is true exactly when the state observed
\* before the call differs from the desired state.
C1_ChangedIffDiffers ==
    (Done /\ Healthy /\ Quotable)
        => (outcome.kind = "exit_json" /\ outcome.changed = Differs)

\* C2: after a live call on a healthy session with a quotable name, the
\* catalog agrees with the desired state: present => the database exists,
\* absent => it does not.
C2_CatalogAgreesAfterLive ==
    (Done /\ Live /\ Healthy /\ Quotable)
        => /\ params.state = "present" => catalog[params.db] = 1
           /\ params.state = "absent" => catalog[params.db] = 0

\* C3: two live calls in sequence with the same desired state and name, the
\* first finding the catalog different from the desired state, report
\* changed=true and then changed=false (for present and for absent).
C3_Idempotence ==
    (/\ Done /\ prev.valid
     /\ prev.params = params /\ Live
     /\ Healthy /\ PrevHealthy /\ Quotable
     /\ prev.seen = (IF params.state = "present" THEN 0 ELSE 1))
        => /\ prev.outcome = exit_json(TRUE, params.db)
           /\ outcome = exit_json(FALSE, params.db)

\* C4: a check-mode call never enters db_create or db_delete, issues no
\* statement other than the existence query, and leaves the catalog as it
\* found it; once connected and finished it has issued exactly that query.
C4_DryRunNonMutation ==
    params.check_mode
        => /\ called \cap {"db_create", "db_delete"} = {}
           /\ NoDDLIssued
           /\ catalog = catalogBefore
           /\ (Done /\ env.connFault = "none")
                 => issued = <<SelectQuery(params.db)>>

\* C4 witness: a check-mode call that predicted a deletion has finished
C4_Witness ==
    /\ Done /\ params.check_mode /\ params.state = "absent"
    /\ outcome = exit_json(TRUE, params.db)

\* C5: the changed value of a check-mode call equals the changed value of
\* the live call made right after it with the same arguments, and that live
\* call ends in exit_json.
C5_DryRunAgreesWithLive ==
    (/\ Done /\ prev.valid
     /\ prev.params.check_mode /\ Live
     /\ prev.params.db = params.db /\ prev.params.state = params.state
     /\ Healthy /\ PrevHealthy /\ Quotable
     /\ prev.outcome.kind = "exit_json")
        => /\ outcome.kind = "exit_json"
           /\ outcome.changed = prev.outcome.changed

\* C6: a live call whose desired state already holds (present and the
\* database exists, absent and it does not) issues no CREATE or DROP, leaves
\* the catalog unchanged, and reports changed=false once its existence
\* query has run.
C6_NoOpCorrectness ==
    (Live /\ pc \notin {"idle", "start"} /\ ~Differs)
        => /\ NoDDLIssued
           /\ catalog = catalogBefore
           /\ (Done /\ env.connFault = "none" /\ env.execFault # 1)
                 => outcome = exit_json(FALSE, params.db)

\* C6 witness: a live "absent" call on an absent database has finished
C6_Witness ==
    /\ Done /\ Live /\ params.state = "absent"
    /\ catalogBefore[params.db] = 0
    /\ outcome = exit_json(FALSE, params.db)
    /\ issued = <<SelectQuery(params.db)>>

\* C7: a live "absent" call whose existence check finds the database issues
\* a DROP naming the database, quoted as the CREATE is, and reports
\* changed=true.
C7_DropNamesDatabase ==
    (Done /\ Live /\ params.state = "absent" /\ Healthy /\ Quotable
          /\ db_exists(seen))
        => /\ \E i \in 1..Len(issued) :
                 issued[i] = [verb |-> "DROP DATABASE",
                              arg |-> pg_quote_identifier(params.db).text]
           /\ outcome = exit_json(TRUE, params.db)

C10_SessionReleased ==
    Done => (~db_connection /\ ~cursor)

\* C11 (as stated): an invocation whose name cannot be quoted ends with the
\* parse error and has executed no statement at all, for present and for
\* absent.
C11_ValidationBeforeStatements ==
    (Done /\ env.connFault = "none" /\ ~Quotable)
        => (outcome = fail_json("SQLParseError") /\ issued = <<>>)

\* C12: when the connection cannot be set up, nothing is inspected: no
\* db_* function is entered, no statement is executed, the catalog is
\* untouched, and the invocation ends with the single fail_json of the
\* handler that took the exception, never with a changed result.
C12_ConnectionErrorAborts ==
    (env.connFault \in {"LibraryError", "TypeError_sslrootcert", "TypeError",
                        "ConnectError", "CursorError"})
        => /\ pc \in {"start", "done"}
           /\ issued = <<>>
           /\ called = {}
           /\ seen = -1
           /\ catalog = catalogBefore
           /\ Done =>
                 /\ emitted = <<outcome>>
                 /\ outcome = fail_json(
                        IF env.connFault = "TypeError_sslrootcert"
                        THEN "Postgresql server must be at least version 8.4 to support sslrootcert"
                        ELSE "unable to connect to database")

\* C12 witness: a call ended on the sslrootcert TypeError
C12_Witness ==
    /\ Done /\ env.connFault = "TypeError_sslrootcert"
    /\ outcome.kind = "fail_json" /\ issued = <<>>

\* a cursor.execute of this invocation raised a driver error
ExecFailed == env.execFault \in 1..Len(issued)

\* the server rejected the CREATE / DROP of this invocation
RejectedDDL ==
    /\ Len(issued) = 2
    /\ ~BackendExecute(issued[2], catalogBefore).ok

\* C13: when the existence query or the CREATE / DROP fails, the invocation
\* ends with one fail_json "Database query failed: <the error>", never with
\* a changed result; the failed statement is the last one issued (it is not
\* tried again, nothing follows it) and the catalog is unchanged.
C13_NoErrorSwallowed ==
    (Done /\ (ExecFailed \/ RejectedDDL))
        => /\ outcome = fail_json(QueryFailed(
                  IF ExecFailed THEN "driver error"
                  ELSE BackendExecute(issued[2], catalogBefore).err))
           /\ emitted = <<outcome>>
           /\ Len(issued) = (IF ExecFailed THEN env.execFault ELSE 2)
           /\ catalog = catalogBefore

\* C13 witness: the driver failed on the CREATE of a live call
C13_Witness ==
    /\ Done /\ Live /\ params.state = "present"
    /\ env.execFault = 2 /\ Len(issued) = 2
    /\ outcome = fail_json(QueryFailed("driver error"))

\* what db_exists answered, as the invocation acted on it
InspectorSaid(answer) ==
    /\ (Done /\ params.check_mode /\ params.state = "absent")
          => outcome = exit_json(answer, params.db)
    /\ (Done /\ params.check_mode /\ params.state = "present")
          => outcome = exit_json(~answer, params.db)
    /\ (~Done /\ Live /\ params.state = "absent")
          => ((pc = "db_delete") = answer)
    /\ (~Done /\ Live /\ params.state = "present")
          => ((pc = "db_create") = ~answer)
    /\ (Done /\ Live /\ params.state = "absent")
          => (~answer /\ outcome = exit_json(FALSE, params.db))
    /\ (Done /\ Live /\ params.state = "present")
          => \/ answer /\ outcome = exit_json(FALSE, params.db)
             \/ ~answer /\ outcome = fail_json("SQLParseError")

\* C14: once the existence query has run and nothing else, the only
\* statement issued is the SELECT for exactly the requested name, the
\* catalog is as it was, and db_exists answered true exactly when the
\* catalog holds one row of that name (false for none, false for several).
C14_InspectorReadOnly ==
    (seen >= 0 /\ Len(issued) = 1)
        => /\ issued = <<SelectQuery(params.db)>>
           /\ catalog = catalogBefore
           /\ seen = catalogBefore[params.db]
           /\ InspectorSaid(catalogBefore[params.db] = 1)

\* C14 witness: a check-mode "absent" call on an existing database
C14_Witness ==
    /\ Done /\ params.check_mode /\ params.state = "absent"
    /\ seen = 1 /\ catalog[params.db] = 1
    /\ outcome = exit_json(TRUE, params.db)

\* the CREATE was executed while the database existed, or the DROP while
\* it did not
Raced ==
    /\ Len(issued) = 2
    /\ \/ params.state = "present" /\ actSaw >= 1
       \/ params.state = "absent" /\ actSaw = 0

\* C15: with another client acting between the existence check and the
\* CREATE / DROP, a call whose statement meets a database that already
\* exists (or is already gone) ends with the single fail_json "Database
\* query failed", not with changed=false and never with changed=true, and
\* leaves the database as the other client made it.
C15_RaceEndsInError ==
    (Done /\ env.execFault = 0 /\ Raced)
        => /\ outcome = fail_json(QueryFailed(
                  IF params.state = "present" THEN "database already exists"
                  ELSE "syntax error"))
           /\ emitted = <<outcome>>
           /\ catalog[params.db] = actSaw

\* C15 witness: a DROP that met an absent database, then a CREATE that met
\* an existing one
C15_Witness ==
    /\ Done /\ env.execFault = 0 /\ Raced
    /\ params.state = "present" /\ seen = 0 /\ actSaw = 1
    /\ prev.valid /\ ~prev.faulted /\ prev.params.state = "absent"
    /\ prev.seen = 1 /\ prev.actSaw = 0
    /\ prev.outcome.kind = "fail_json"

\* the errors a failed cursor.execute, or a stray SystemExit, would carry
QueryErrors == {"driver error", "syntax error", "permission denied",
                "database already exists", "database does not exist",
                "SQLParseError", "SystemExit"}

\* C16: a live "present" call for an absent database whose name cannot be
\* quoted ends with the single fail_json carrying the parse error, which is
\* not a "Database query failed" message; no CREATE is executed and the
\* catalog is unchanged.
C16_QuotingFailureDistinct ==
    (Done /\ Live /\ params.state = "present" /\ ~Quotable /\ seen = 0)
        => /\ outcome = fail_json("SQLParseError")
           /\ emitted = <<outcome>>
           /\ \A e \in QueryErrors : outcome.msg # QueryFailed(e)
           /\ NoDDLIssued
           /\ catalog = catalogBefore

\* C16 witness: the dotted name was refused
C16_Witness ==
    /\ Done /\ Live /\ params.state = "present" /\ seen = 0
    /\ params.db = <<"a", Dot, "b">>
    /\ outcome.kind = "fail_json" /\ outcome.msg = "SQLParseError"

\* C17: an invocation that reached the reconciler has issued the existence
\* query first and once, what it read is the catalog of this call (not a
\* value of the call before), at most one CREATE / DROP follows, a
\* check-mode call issues one statement in all and a live call at most two.
C17_FreshAndBounded ==
    (pc \in {"db_create", "db_delete", "done"} /\ env.connFault = "none")
        => /\ Len(issued) \in 1..2
           /\ issued[1] = SelectQuery(params.db)
           /\ \A i \in 2..Len(issued) : IsDDL(issued[i])
           /\ params.check_mode => Len(issued) = 1
           /\ seen >= 0 => seen = catalogBefore[params.db]
           /\ env.execFault # 1 => seen >= 0

\* C17 witness: the call after a creation sees the database the call
\* before did not see
C17_Witness ==
    /\ Done /\ env.connFault = "none"
    /\ prev.valid /\ prev.params.db = params.db
    /\ prev.seen = 0 /\ seen = 1

\* exactly one result has been printed when the invocation has ended, none
\* before
OneOutcome ==
    /\ Done => /\ Len(emitted) = 1
               /\ emitted[1] = outcome
               /\ outcome.kind \in {"exit_json", "fail_json"}
    /\ ~Done => (emitted = <<>> /\ outcome = NoOutcome)
    /\ (Done /\ params.check_mode /\ env.connFault = "none")
          => /\ called \cap {"db_create", "db_delete"} = {}
             /\ Len(issued) = 1
             /\ ~ExecFailed => outcome.kind = "exit_json"
    /\ (Done /\ Live /\ Len(issued) = 1 /\ seen = 0 /\ params.state = "present")
          => outcome = fail_json("SQLParseError")

\* C18: every invocation ends (each blocking call returning), and when it
\* has ended exactly one result has been printed: the exit_json of check
\* mode ends the call there, and a parse error reported by the inner
\* handler is not reported again as "Database query failed".
C18_ExactlyOneOutcome ==
    /\ []OneOutcome
    /\ (pc = "start") ~> Done

\* C18 witness: a check-mode call has ended with its one result
C18_Witness ==
    /\ Done /\ params.check_mode /\ params.state = "present"
    /\ emitted = <<exit_json(TRUE, params.db)>>

\* C19: every exit_json carries the name the caller supplied, and the
\* name, the desired state and the check-mode flag do not change while the
\* invocation runs.
C19_NameReturned ==
    /\ [](outcome.kind = "exit_json" =>
             (outcome.db = params.db /\ params.db \in DbNames))
    /\ [][(pc # "idle" /\ pc' # "idle") => params' = params]_vars

\* C19 witness: a live creation has returned the plain name
C19_Witness ==
    /\ Done /\ Live /\ params.db = <<"a">> /\ params.state = "present"
    /\ outcome.kind = "exit_json" /\ outcome.changed /\ outcome.db = <<"a">>

====
